---- MODULE Spec2Model ----
(***************************************************************************)
(* A model of the two programs of the repository:                          *)
(*                                                                         *)
(*   tests/examples/dockerchat/test_entrypoint.py                          *)
(*       four pytest tests; three of them share the module-level `agent`   *)
(*       and the fourth builds an agent of its own.  The state is the      *)
(*       agents' handler registries (handled_classes), the position of the *)
(*       running test (pc = the line of the next statement) and the values *)
(*       the tests bind.                                                   *)
(*                                                                         *)
(*   examples/basic/tool-extract-short-example.py                          *)
(*       a script that defines CompanyInfo / CompanyResult /               *)
(*       CompanyInfoTool, enables the tool on an agent, runs a task and    *)
(*       asserts on the task's result.                                     *)
(*                                                                         *)
(* The framework the two files call (ChatAgent.enable_message,             *)
(* disable_message, handle_message, respond_forget; Task.run;              *)
(* FinalResultTool) is not among the source files.  Its operators are      *)
(* written from what the specification, the docstrings and the assertions  *)
(* of the two files say about it.                                          *)
(***************************************************************************)
EXTENDS Integers, Sequences, FiniteSets, TLC

VARIABLES
    \* ---- test_entrypoint.py
    handled_classes,   \* module-level agent.handled_classes: request -> class
    local_handled,     \* handled_classes of the agent of test_llm_agent_message
    test,              \* the test function pytest is running, or "idle"
    pc,                \* line of the next statement of the running test
    llm_msg,           \* test_llm_agent_message: llm_msg
    agent_result,      \* value of the last agent.handle_message(...) call
    handler_invoked,   \* whether that call invoked the find_entrypoint method
    failures,          \* tests with a failed assertion
    runs,              \* number of tests pytest has started
    \* ---- tool-extract-short-example.py
    epc,               \* line of the next statement of the script
    usable,            \* tool classes the agent's LLM may use
    handled,           \* tool classes the agent handles
    pending,           \* the task's pending message
    nsteps,            \* responder steps the task has run
    handledStep,       \* nsteps when CompanyInfoTool.handle returned (0: never)
    tool,              \* the CompanyInfoTool the agent handled
    result             \* what task.run returned

tvars == <<handled_classes, local_handled, test, pc, llm_msg, agent_result,
           handler_invoked, failures, runs>>
evars == <<epc, usable, handled, pending, tool, nsteps, handledStep, result>>
vars == <<handled_classes, local_handled, test, pc, llm_msg, agent_result,
          handler_invoked, failures, runs,
          epc, usable, handled, pending, tool, nsteps, handledStep, result>>

\* Python's None
None == "None"

(***************************************************************************)
(* Bounds                                                                  *)
(***************************************************************************)
\* tests pytest starts in one session (any order, with repetitions)
MaxRuns == 4
\* LLM turns of the task before the model stops following it
MaxTurns == 3
\* largest value of the numbers in a passage
MaxShares == 3
MaxPrice == 3

(***************************************************************************)
(* test_entrypoint.py: the constants of the file                           *)
(***************************************************************************)
EntryPointAndCMDMessage == "EntryPointAndCMDMessage"

\* A text is a sequence of tokens: "{" and "}" delimit a JSON object, whose
\* tokens are key, value, key, value, ...; every other token is prose.
FIND_ENTRYPOINT_MSG ==
    <<"great, please tell me this --", "{", "request", "find_entrypoint", "}",
      "/if you know it">>

CODE_CHAT_RESPONSE_FIND_ENTRY ==
    "The name of the main script in this repo is main.py. To run it, you can use the command python main.py"

\* MessageHandlingAgent.find_entrypoint
find_entrypoint_Other(message) == "python main.py"
find_entrypoint(message) == CODE_CHAT_RESPONSE_FIND_ENTRY

\* The methods class MessageHandlingAgent defines, by name.
AgentMethods == {"find_entrypoint"}

(***************************************************************************)
(* The framework's message registry                                        *)
(***************************************************************************)
\* The default of the class's `request` field.
RequestOf(cls) ==
    CASE cls = EntryPointAndCMDMessage -> "find_entrypoint"
      [] OTHER -> "unknown"

\* ChatAgent.enable_message: handled_classes[request] = message_class
enable_message(reg, cls) ==
    [r \in DOMAIN reg \cup {RequestOf(cls)} |->
        IF r = RequestOf(cls) THEN cls ELSE reg[r]]

\* ChatAgent.disable_message: handled_classes.pop(request, None)
disable_message(reg, cls) ==
    [r \in DOMAIN reg \ {RequestOf(cls)} |-> reg[r]]

\* A new agent handles nothing.
EmptyRegistry == [r \in {} |-> None]

\* Index of the first token equal to tok at or after position i (0: none).
RECURSIVE IndexFrom(_, _, _)
IndexFrom(text, tok, i) ==
    IF i > Len(text) THEN 0
    ELSE IF text[i] = tok THEN i
    ELSE IndexFrom(text, tok, i + 1)

\* The first top-level JSON object of a text, as its tokens between the
\* braces; <<"!">> when the text holds no well-formed object.
NoJson == <<"!">>
ExtractJson(text) ==
    LET open == IndexFrom(text, "{", 1)
        close == IF open = 0 THEN 0 ELSE IndexFrom(text, "}", open + 1)
    IN  IF open = 0 \/ close = 0 THEN NoJson
        ELSE LET body == SubSeq(text, open + 1, close - 1)
             IN  IF Len(body) % 2 = 0 THEN body ELSE NoJson

\* json_data.get("request"): the value of the key "request", or None.
RECURSIVE GetRequest(_, _)
GetRequest(body, i) ==
    IF i + 1 > Len(body) THEN None
    ELSE IF body[i] = "request" THEN body[i + 1]
    ELSE GetRequest(body, i + 2)

ExtractRequest(text) ==
    LET body == ExtractJson(text)
    IN  IF body = NoJson THEN None ELSE GetRequest(body, 1)

\* ChatAgent.handle_message: the message is handled by the agent method named
\* after its request when the request's class is enabled; otherwise the
\* result is None and no method runs.
handle_message(reg, text) ==
    LET request == ExtractRequest(text)
    IN  IF request = None \/ request \notin DOMAIN reg
             \/ request \notin AgentMethods
        THEN [result |-> None, invoked |-> FALSE]
        ELSE [result |-> find_entrypoint(reg[request]), invoked |-> TRUE]

\* What the LLM may answer to the prompt of respond_forget.
LLMResponses ==
    { <<"Which script is the entry point?", "{", "request", "find_entrypoint", "}">>,
      <<"{", "purpose", "entrypoint", "request", "find_entrypoint", "}">>,
      <<"I do not know the main script.">>,
      <<"{", "request", "run_python", "}">>,
      <<"{", "filename", "main.py", "}", "is the script">>,
      <<"{", "request", "find_entrypoint">> }

TestNames == {"test_enable_message", "test_disable_message",
              "test_dockerchat_agent_handle_message", "test_llm_agent_message"}
SharedAgentTests == TestNames \ {"test_llm_agent_message"}

FirstLine(t) ==
    CASE t = "test_enable_message" -> 53
      [] t = "test_disable_message" -> 59
      [] t = "test_dockerchat_agent_handle_message" -> 70
      [] t = "test_llm_agent_message" -> 80

InitTests ==
    /\ handled_classes = EmptyRegistry
    /\ local_handled = EmptyRegistry
    /\ test = "idle"
    /\ pc = 0
    /\ llm_msg = <<>>
    /\ agent_result = None
    /\ handler_invoked = FALSE
    /\ failures = {}
    /\ runs = 0

\* pytest starts a test function.
StartTest ==
    /\ UNCHANGED evars
    /\ test = "idle"
    /\ runs < MaxRuns
    /\ \E t \in TestNames :
          /\ test' = t
          /\ pc' = FirstLine(t)
    /\ runs' = runs + 1
    /\ UNCHANGED <<handled_classes, local_handled, llm_msg, agent_result,
                   handler_invoked, failures>>

\* The test's last statement has run: the test passes.
Passed == test' = "idle" /\ pc' = 0 /\ UNCHANGED failures
\* An assertion failed: the test ends there.
Failed == test' = "idle" /\ pc' = 0 /\ failures' = failures \cup {test}

\* ---- test_enable_message
Enable53_NoCall ==
    /\ UNCHANGED evars
    /\ test = "test_enable_message" /\ pc = 53
    /\ pc' = 54
    /\ UNCHANGED <<handled_classes, local_handled, test, llm_msg, agent_result,
                   handler_invoked, failures, runs>>
Enable53 ==
    /\ UNCHANGED evars
    /\ test = "test_enable_message" /\ pc = 53
    /\ handled_classes' = enable_message(handled_classes, EntryPointAndCMDMessage)
    /\ pc' = 54
    /\ UNCHANGED <<local_handled, test, llm_msg, agent_result,
                   handler_invoked, failures, runs>>

Assert54 ==
    /\ UNCHANGED evars
    /\ test = "test_enable_message" /\ pc = 54
    /\ IF "find_entrypoint" \in DOMAIN handled_classes
       THEN pc' = 55 /\ UNCHANGED <<test, failures>>
       ELSE Failed
    /\ UNCHANGED <<handled_classes, local_handled, llm_msg, agent_result,
                   handler_invoked, runs>>

Assert55 ==
    /\ UNCHANGED evars
    /\ test = "test_enable_message" /\ pc = 55
    /\ IF handled_classes["find_entrypoint"] = EntryPointAndCMDMessage
       THEN Passed
       ELSE Failed
    /\ UNCHANGED <<handled_classes, local_handled, llm_msg, agent_result,
                   handler_invoked, runs>>

\* ---- test_disable_message
Enable59 ==
    /\ UNCHANGED evars
    /\ test = "test_disable_message" /\ pc = 59
    /\ handled_classes' = enable_message(handled_classes, EntryPointAndCMDMessage)
    /\ pc' = 61
    /\ UNCHANGED <<local_handled, test, llm_msg, agent_result,
                   handler_invoked, failures, runs>>

Disable61_NoCall ==
    /\ UNCHANGED evars
    /\ test = "test_disable_message" /\ pc = 61
    /\ pc' = 62
    /\ UNCHANGED <<handled_classes, local_handled, test, llm_msg, agent_result,
                   handler_invoked, failures, runs>>
Disable61 ==
    /\ UNCHANGED evars
    /\ test = "test_disable_message" /\ pc = 61
    /\ handled_classes' = disable_message(handled_classes, EntryPointAndCMDMessage)
    /\ pc' = 62
    /\ UNCHANGED <<local_handled, test, llm_msg, agent_result,
                   handler_invoked, failures, runs>>

Assert62 ==
    /\ UNCHANGED evars
    /\ test = "test_disable_message" /\ pc = 62
    /\ IF "find_entrypoint" \notin DOMAIN handled_classes
       THEN Passed
       ELSE Failed
    /\ UNCHANGED <<handled_classes, local_handled, llm_msg, agent_result,
                   handler_invoked, runs>>

\* ---- test_dockerchat_agent_handle_message
Enable70 ==
    /\ UNCHANGED evars
    /\ test = "test_dockerchat_agent_handle_message" /\ pc = 70
    /\ handled_classes' = enable_message(handled_classes, EntryPointAndCMDMessage)
    /\ pc' = 71
    /\ UNCHANGED <<local_handled, test, llm_msg, agent_result,
                   handler_invoked, failures, runs>>

Disable71_NoCall ==
    /\ UNCHANGED evars
    /\ test = "test_dockerchat_agent_handle_message" /\ pc = 71
    /\ pc' = 72
    /\ UNCHANGED <<handled_classes, local_handled, test, llm_msg, agent_result,
                   handler_invoked, failures, runs>>
Disable71 ==
    /\ UNCHANGED evars
    /\ test = "test_dockerchat_agent_handle_message" /\ pc = 71
    /\ handled_classes' = disable_message(handled_classes, EntryPointAndCMDMessage)
    /\ pc' = 72
    /\ UNCHANGED <<local_handled, test, llm_msg, agent_result,
                   handler_invoked, failures, runs>>

\* Line 72 is `assert agent.handle_message(FIND_ENTRYPOINT_MSG) is None`: the
\* call runs first (pc 72), then the assertion on its value (pc 73).
Handle72 ==
    /\ UNCHANGED evars
    /\ test = "test_dockerchat_agent_handle_message" /\ pc = 72
    /\ LET r == handle_message(handled_classes, FIND_ENTRYPOINT_MSG)
       IN  /\ agent_result' = r.result
           /\ handler_invoked' = r.invoked
    /\ pc' = 73
    /\ UNCHANGED <<handled_classes, local_handled, test, llm_msg, failures, runs>>

Assert72 ==
    /\ UNCHANGED evars
    /\ test = "test_dockerchat_agent_handle_message" /\ pc = 73
    /\ IF agent_result = None THEN Passed ELSE Failed
    /\ UNCHANGED <<handled_classes, local_handled, llm_msg, agent_result,
                   handler_invoked, runs>>

\* ---- test_llm_agent_message
\* set_global / update_global_settings, then agent = MessageHandlingAgent(cfg):
\* the test's own agent, with a registry of its own.
Construct82 ==
    /\ UNCHANGED evars
    /\ test = "test_llm_agent_message" /\ pc = 80
    /\ local_handled' = EmptyRegistry
    /\ pc' = 83
    /\ UNCHANGED <<handled_classes, test, llm_msg, agent_result,
                   handler_invoked, failures, runs>>

Enable83 ==
    /\ UNCHANGED evars
    /\ test = "test_llm_agent_message" /\ pc = 83
    /\ local_handled' = enable_message(local_handled, EntryPointAndCMDMessage)
    /\ pc' = 85
    /\ UNCHANGED <<handled_classes, test, llm_msg, agent_result,
                   handler_invoked, failures, runs>>

\* llm_msg = agent.respond_forget(...).content: whatever the LLM answers
Respond85 ==
    /\ UNCHANGED evars
    /\ test = "test_llm_agent_message" /\ pc = 85
    /\ \E m \in LLMResponses : llm_msg' = m
    /\ pc' = 90
    /\ UNCHANGED <<handled_classes, local_handled, test, agent_result,
                   handler_invoked, failures, runs>>

\* agent_result = agent.handle_message(llm_msg)
Handle90 ==
    /\ UNCHANGED evars
    /\ test = "test_llm_agent_message" /\ pc = 90
    /\ LET r == handle_message(local_handled, llm_msg)
       IN  /\ agent_result' = r.result
           /\ handler_invoked' = r.invoked
    /\ pc' = 91
    /\ UNCHANGED <<handled_classes, local_handled, test, llm_msg, failures, runs>>

\* assert agent_result == CODE_CHAT_RESPONSE_FIND_ENTRY
Assert91 ==
    /\ UNCHANGED evars
    /\ test = "test_llm_agent_message" /\ pc = 91
    /\ IF agent_result = CODE_CHAT_RESPONSE_FIND_ENTRY THEN Passed ELSE Failed
    /\ UNCHANGED <<handled_classes, local_handled, llm_msg, agent_result,
                   handler_invoked, runs>>

NextTests ==
    \/ StartTest
    \/ Enable53 \/ Assert54 \/ Assert55
    \/ Enable59 \/ Disable61 \/ Assert62
    \/ Enable70 \/ Disable71 \/ Handle72 \/ Assert72
    \/ Construct82 \/ Enable83 \/ Respond85 \/ Handle90 \/ Assert91

(***************************************************************************)
(* tool-extract-short-example.py                                           *)
(***************************************************************************)
CompanyNames == {"Qualcomm", "IBM"}

\* class CompanyInfo(BaseModel)
CompanyInfo(name, shares, price) ==
    [type |-> "CompanyInfo", name |-> name, shares |-> shares, price |-> price]

NoInfo == [type |-> "NoneType", name |-> "", shares |-> 0, price |-> 0]

\* The class each class of the script derives from.
CompanyResultBase_ToolMessage == "ToolMessage"
CompanyResultBase == "FinalResultTool"

BaseClass(cls) ==
    CASE cls = "CompanyResult" -> CompanyResultBase
      [] cls = "CompanyInfoTool" -> "ToolMessage"
      [] OTHER -> "BaseModel"

\* A FinalResultTool ends the task, is the task's result as an object, and
\* accepts fields its class does not declare.
IsFinalResultTool(obj) == BaseClass(obj.type) = "FinalResultTool"
ExtraAllowed(cls) == BaseClass(cls) = "FinalResultTool"

NoExtra == [f \in {} |-> ""]

\* CompanyResult(market_cap=..., info=..., **extra)
CompanyResult(market_cap, info, extra) ==
    [type |-> "CompanyResult", market_cap |-> market_cap, info |-> info,
     extra |-> IF ExtraAllowed("CompanyResult") THEN extra ELSE NoExtra]

\* CompanyInfoTool(company_info=...)
CompanyInfoTool(company_info) ==
    [type |-> "CompanyInfoTool", request |-> "company_info_tool",
     company_info |-> company_info]

NoTool == CompanyInfoTool(NoInfo)

\* CompanyInfoTool.handle: the value returned, and self after the call.
handle_Sum(self) ==
    LET mkt_cap == self.company_info.shares + self.company_info.price
    IN  [ret |-> CompanyResult(mkt_cap, self.company_info,
                               [f \in {"comment"} |-> "success"]),
         self |-> self]
handle_NoComment(self) ==
    LET mkt_cap == self.company_info.shares * self.company_info.price
    IN  [ret |-> CompanyResult(mkt_cap, self.company_info, NoExtra),
         self |-> self]
handle(self) ==
    LET mkt_cap == self.company_info.shares * self.company_info.price
    IN  [ret |-> CompanyResult(mkt_cap, self.company_info,
                               [f \in {"comment"} |-> "success"]),
         self |-> self]

\* The classes the script enables on the agent (for use and for handling).
EnabledTools_Both == {"CompanyInfoTool", "CompanyResult"}
EnabledTools == {"CompanyInfoTool"}

Message(sender, kind, info) == [sender |-> sender, kind |-> kind, info |-> info]
NoMessage == Message("", "none", NoInfo)
NoResult == [tool_messages |-> <<>>]

\* the script has raised / has run to its end
Raised == 0
Exited == 117

InitExample ==
    /\ epc = 83
    /\ usable = {}
    /\ handled = {}
    /\ pending = NoMessage
    /\ tool = NoTool
    /\ nsteps = 0
    /\ handledStep = 0
    /\ result = NoResult

\* agent = lr.ChatAgent(lr.ChatAgentConfig(...))
Construct83 ==
    /\ UNCHANGED tvars
    /\ epc = 83
    /\ usable' = {} /\ handled' = {}
    /\ epc' = 92
    /\ UNCHANGED <<pending, tool, nsteps, handledStep, result>>

\* agent.enable_message(CompanyInfoTool)
Enable92 ==
    /\ UNCHANGED tvars
    /\ epc = 92
    /\ usable' = usable \cup EnabledTools
    /\ handled' = handled \cup EnabledTools
    /\ epc' = 96
    /\ UNCHANGED <<pending, tool, nsteps, handledStep, result>>

\* task = lr.Task(agent, interactive=False); task.run(passage) starts
Task96 ==
    /\ UNCHANGED tvars
    /\ epc = 96
    /\ pending' = Message("User", "text", NoInfo)
    /\ epc' = 97
    /\ UNCHANGED <<usable, handled, tool, nsteps, handledStep, result>>

\* task.run, the LLM's turn: it answers in prose, with the tool filled in
\* from the passage, or with a tool call that does not validate.
LLMStep ==
    /\ UNCHANGED tvars
    /\ epc = 97
    /\ pending.sender \in {"User", "Agent"}
    /\ nsteps < MaxTurns * 2
    /\ \/ pending' = Message("LLM", "text", NoInfo)
       \/ /\ "CompanyInfoTool" \in usable
          /\ \E n \in CompanyNames, s \in 0..MaxShares, p \in 0..MaxPrice :
                pending' = Message("LLM", "tool", CompanyInfo(n, s, p))
       \/ /\ "CompanyInfoTool" \in usable
          /\ pending' = Message("LLM", "bad_tool", NoInfo)
    /\ nsteps' = nsteps + 1
    /\ UNCHANGED <<epc, usable, handled, tool, handledStep, result>>

\* task.run, the agent's turn on a valid CompanyInfoTool: the tool's handle()
\* runs; a FinalResultTool ends the task and is its result.
AgentHandleTool ==
    /\ UNCHANGED tvars
    /\ epc = 97
    /\ pending.sender = "LLM" /\ pending.kind = "tool"
    /\ "CompanyInfoTool" \in handled
    /\ LET self == CompanyInfoTool(pending.info)
           h == handle(self)
       IN  /\ tool' = h.self
           /\ nsteps' = nsteps + 1
           /\ handledStep' = nsteps + 1
           /\ IF IsFinalResultTool(h.ret)
              THEN /\ result' = [tool_messages |-> <<h.ret>>]
                   /\ epc' = 105
                   /\ UNCHANGED pending
              ELSE /\ pending' = Message("Agent", "tool_result", NoInfo)
                   /\ UNCHANGED <<epc, result>>
    /\ UNCHANGED <<usable, handled>>

\* task.run, the agent's turn on a tool call that does not validate: the
\* error goes back to the LLM.
AgentRejectTool ==
    /\ UNCHANGED tvars
    /\ epc = 97
    /\ pending.sender = "LLM" /\ pending.kind = "bad_tool"
    /\ pending' = Message("Agent", "error", NoInfo)
    /\ nsteps' = nsteps + 1
    /\ UNCHANGED <<epc, usable, handled, tool, handledStep, result>>

\* task.run, nobody responds to the LLM's prose (interactive=False): the
\* task ends with no tool message in its result.
TaskStalls ==
    /\ UNCHANGED tvars
    /\ epc = 97
    /\ pending.sender = "LLM"
    /\ \/ pending.kind = "text"
       \/ pending.kind = "tool" /\ "CompanyInfoTool" \notin handled
    /\ result' = NoResult
    /\ epc' = 105
    /\ UNCHANGED <<usable, handled, pending, tool, nsteps, handledStep>>

\* company_result = result.tool_messages[0]
Index105 ==
    /\ UNCHANGED tvars
    /\ epc = 105
    /\ epc' = IF Len(result.tool_messages) = 0 THEN Raised ELSE 106
    /\ UNCHANGED <<usable, handled, pending, tool, nsteps, handledStep, result>>

\* assert isinstance(company_result, CompanyResult)
Assert106 ==
    /\ UNCHANGED tvars
    /\ epc = 106
    /\ epc' = IF result.tool_messages[1].type = "CompanyResult" THEN 107 ELSE Raised
    /\ UNCHANGED <<usable, handled, pending, tool, nsteps, handledStep, result>>

\* assert isinstance(company_result.info, CompanyInfo)
Assert107 ==
    /\ UNCHANGED tvars
    /\ epc = 107
    /\ epc' = IF result.tool_messages[1].info.type = "CompanyInfo" THEN 111 ELSE Raised
    /\ UNCHANGED <<usable, handled, pending, tool, nsteps, handledStep, result>>

\* assert company_result.comment == "success"
Assert111 ==
    /\ UNCHANGED tvars
    /\ epc = 111
    /\ LET extra == result.tool_messages[1].extra
       IN  epc' = IF "comment" \in DOMAIN extra /\ extra["comment"] = "success"
                  THEN 112 ELSE Raised
    /\ UNCHANGED <<usable, handled, pending, tool, nsteps, handledStep, result>>

\* print(...)
Print112 ==
    /\ UNCHANGED tvars
    /\ epc = 112
    /\ epc' = Exited
    /\ UNCHANGED <<usable, handled, pending, tool, nsteps, handledStep, result>>

NextExample ==
    \/ Construct83 \/ Enable92 \/ Task96
    \/ LLMStep \/ AgentHandleTool \/ AgentRejectTool \/ TaskStalls
    \/ Index105 \/ Assert106 \/ Assert107 \/ Assert111 \/ Print112

(***************************************************************************)
(* Specifications: each program runs on its own.                           *)
(***************************************************************************)
Init == InitTests /\ InitExample

TestSpec == Init /\ [][NextTests]_vars

ExampleSpec == Init /\ [][NextExample]_vars

(***************************************************************************)
(* Properties of test_entrypoint.py (under TestSpec)                       *)
(***************************************************************************)
FE == "find_entrypoint"

\* The statement just executed was agent.enable_message(EntryPointAndCMDMessage)
\* on the module-level agent.
AfterEnable == pc \in {54, 61, 71}
\* The statement just executed was agent.disable_message(...) on that agent.
AfterDisable == pc \in {62, 72}

\* C1: after agent.enable_message(EntryPointAndCMDMessage), whatever the
\* registry held before, handled_classes has the key "find_entrypoint" and
\* the value under it is the class EntryPointAndCMDMessage (for the
\* module-level agent and for the agent of test_llm_agent_message alike).
C1_EnableRegisters ==
    /\ AfterEnable =>
          /\ FE \in DOMAIN handled_classes
          /\ handled_classes[FE] = EntryPointAndCMDMessage
    /\ pc = 85 =>
          /\ FE \in DOMAIN local_handled
          /\ local_handled[FE] = EntryPointAndCMDMessage

\* test_enable_message has just enabled the class, in a session where earlier
\* tests have already used the registry.
C1_Witness ==
    /\ test = "test_enable_message" /\ pc = 54 /\ runs >= 3
    /\ FE \in DOMAIN handled_classes

\* C2: after agent.disable_message(EntryPointAndCMDMessage) the key
\* "find_entrypoint" is not in handled_classes, and it stays absent until the
\* next enable_message call: whenever the last call was disable_message, the
\* key is absent.
C2_DisableRemoves ==
    /\ [](AfterDisable => FE \notin DOMAIN handled_classes)
    /\ [][(FE \notin DOMAIN handled_classes /\ FE \in DOMAIN handled_classes')
            => pc \in {53, 59, 70}]_vars

\* test_disable_message has enabled and then disabled the class, after an
\* earlier test left the registry used.
C2_Witness ==
    /\ test = "test_disable_message" /\ pc = 62 /\ runs >= 2
    /\ FE \notin DOMAIN handled_classes

\* C3: a disabled message is not handled: once the class has been enabled and
\* then disabled, handle_message(FIND_ENTRYPOINT_MSG) returns None and the
\* find_entrypoint method is not invoked.
C3_DisabledNotHandled ==
    (test = "test_dockerchat_agent_handle_message" /\ pc = 73) =>
        /\ ExtractRequest(FIND_ENTRYPOINT_MSG) = FE
        /\ agent_result = None
        /\ handler_invoked = FALSE

\* The call of line 72 has returned, in a session where test_llm_agent_message
\* ran (and failed) before.
C3_Witness ==
    /\ test = "test_dockerchat_agent_handle_message" /\ pc = 73
    /\ agent_result = None /\ ~handler_invoked
    /\ "test_llm_agent_message" \in failures

\* C4: an enabled message is handled by the agent method named after its
\* request: on the fresh agent of test_llm_agent_message, with the class
\* enabled, handle_message of an LLM response that uses the find_entrypoint
\* request returns what find_entrypoint returns, CODE_CHAT_RESPONSE_FIND_ENTRY.
C4_EnabledHandled ==
    (test = "test_llm_agent_message" /\ pc = 91
        /\ ExtractRequest(llm_msg) = FE) =>
        /\ handler_invoked
        /\ agent_result = CODE_CHAT_RESPONSE_FIND_ENTRY

\* The LLM answered with the request after some prose, and the handler ran.
C4_Witness ==
    /\ test = "test_llm_agent_message" /\ pc = 91
    /\ Len(llm_msg) = 5 /\ llm_msg[3] = "request" /\ llm_msg[4] = FE
    /\ agent_result = CODE_CHAT_RESPONSE_FIND_ENTRY
    /\ handler_invoked

\* C9: the three tests that share the module-level agent pass in every order
\* and with any number of repetitions; enabling an enabled class leaves the
\* registry as after one enable, and disable after enable removes the entry.
C9_OrderIndependent ==
    /\ failures \cap SharedAgentTests = {}
    /\ LET once == enable_message(handled_classes, EntryPointAndCMDMessage)
       IN  /\ enable_message(once, EntryPointAndCMDMessage) = once
           /\ FE \notin DOMAIN disable_message(once, EntryPointAndCMDMessage)
           /\ AfterEnable => handled_classes = once

\* All the tests pytest may start have run, the last being a shared-agent
\* test that found the key left by test_enable_message, and none of the
\* shared-agent tests has failed.
C9_Witness ==
    /\ runs = MaxRuns /\ test = "test_disable_message" /\ pc = 59
    /\ FE \in DOMAIN handled_classes
    /\ failures \cap SharedAgentTests = {}

(***************************************************************************)
(* Properties of tool-extract-short-example.py (under ExampleSpec)         *)
(***************************************************************************)
\* task.run has returned after the agent handled a CompanyInfoTool.
RunReturnedHandled == handledStep # 0 /\ epc \in {105, 106, 107, 111, 112, Exited, Raised}

\* C5: once the agent handles a CompanyInfoTool the task terminates with the
\* CompanyResult as its result: task.run returns, result.tool_messages[0] is
\* an object of type CompanyResult whose info is of type CompanyInfo, and no
\* agent or LLM step runs after the handler returned.
C5_FinalResult ==
    handledStep # 0 =>
        /\ epc # 97
        /\ nsteps = handledStep
        /\ Len(result.tool_messages) = 1
        /\ result.tool_messages[1].type = "CompanyResult"
        /\ result.tool_messages[1].info.type = "CompanyInfo"

\* The script ran to its end after the LLM first sent a tool call that did
\* not validate and then a valid one.
C5_Witness ==
    /\ epc = Exited /\ handledStep = 4 /\ nsteps = 4
    /\ result.tool_messages[1].type = "CompanyResult"

\* C6: handle() returns a CompanyResult whose market_cap is
\* company_info.shares * company_info.price and whose info is the tool's
\* company_info (same name, shares, price), and leaves the tool's
\* company_info as the LLM gave it.
C6_HandleComputes ==
    RunReturnedHandled =>
        LET r == result.tool_messages[1]
        IN  /\ r.market_cap = tool.company_info.shares * tool.company_info.price
            /\ r.info = tool.company_info
            /\ tool.company_info = pending.info

\* handle() ran on 2 shares at price 3.
C6_Witness ==
    /\ epc = 106 /\ handledStep # 0
    /\ tool.company_info.shares = 2 /\ tool.company_info.price = 3
    /\ result.tool_messages[1].market_cap = 6

\* C7: the undeclared field comment="success" given to CompanyResult by
\* handle() is on the object delivered in result.tool_messages[0], so the
\* script's assertion on it never fails.
C7_ExtraFieldSurvives ==
    RunReturnedHandled =>
        LET r == result.tool_messages[1]
        IN  /\ "comment" \in DOMAIN r.extra
            /\ r.extra["comment"] = "success"
            /\ epc # Raised

\* The assertion of line 111 has passed.
C7_Witness ==
    /\ epc = 112 /\ handledStep # 0
    /\ result.tool_messages[1].extra["comment"] = "success"

\* C8: only CompanyInfoTool is enabled on the agent; CompanyResult is never
\* usable by the LLM nor handled by the agent, and is still the object the
\* task returns.
C8_ResultNotEnabled ==
    /\ "CompanyResult" \notin usable \cup handled
    /\ epc \notin {83, 92} => (usable = {"CompanyInfoTool"} /\ handled = {"CompanyInfoTool"})
    /\ RunReturnedHandled => result.tool_messages[1].type = "CompanyResult"

\* The isinstance assertion on the result has passed with CompanyResult not
\* in the agent's enabled sets.
C8_Witness ==
    /\ epc = 107
    /\ result.tool_messages[1].type = "CompanyResult"
    /\ "CompanyResult" \notin usable \cup handled
    /\ "CompanyInfoTool" \in handled

====
